---------------------------- MODULE Spec2Model ----------------------------
(***************************************************************************)
(* Model of the fixed-size block integer codec of                          *)
(* src/core/codec/lucene50/util.rs (ForUtil / ForUtilInstance and the      *)
(* process-wide max_data_size()).                                          *)
(*                                                                         *)
(* Values are i32: the model's integers are used as 32-bit two's           *)
(* complement words, so a word whose bit 31 is set is a negative number.   *)
(* Rust index i of a slice is index i + 1 of the modelling sequence.       *)
(*                                                                         *)
(* The packed-integer catalog (core::util::packed::packed_misc), the vint  *)
(* routines of core::store and posting_format::BLOCK_SIZE are not part of  *)
(* util.rs; the operators that stand for them are grouped in the first     *)
(* sections below.                                                         *)
(***************************************************************************)
EXTENDS Integers, Sequences, FiniteSets, TLC

VARIABLES
    ratio4,     \* acceptable_overhead_ratio handed to with_output, in quarters
    file,       \* the bytes of the postings file: header, then the blocks
    foreign,    \* TRUE once the file holds bytes this writer did not write
    wtable,     \* the writer's ForUtilInstance (NoTable before with_output)
    wstatus,    \* outcome of the writer's last call
    lastData,   \* the data buffer handed to the last write_block call
    written,    \* the data buffers handed to write_block so far, in order
    starts,     \* file offsets: starts[k] is where block k starts (k = 1..)
    rtable,     \* the reader's ForUtilInstance (NoTable before with_input)
    rstatus,    \* outcome of the reader's last call
    inPos,      \* the reader's file pointer (bytes consumed so far)
    ops,        \* the reader's block calls so far, in order: "read" / "skip"
    decoded,    \* the reader's decoded buffer (max_data_size slots)
    START,      \* the Once guarding MAX_DATA_SIZE
    MAX_DATA_SIZE, \* the static
    pc,         \* per thread: position inside max_data_size()
    acc,        \* per thread: the closure's local max_data_size
    cursor,     \* per thread: next (version, format, bpv) of the scan
    ret,        \* per thread: sequence of values max_data_size() returned
    scans       \* number of times the closure body was entered

vars == <<ratio4, file, foreign, wtable, wstatus, lastData, written, starts, rtable,
          rstatus, inPos, ops, decoded, START, MAX_DATA_SIZE,
          pc, acc, cursor, ret, scans>>

codecVars == <<ratio4, file, foreign, wtable, wstatus, lastData, written, starts, rtable,
               rstatus, inPos, ops, decoded>>

onceVars == <<START, MAX_DATA_SIZE, pc, acc, cursor, ret, scans>>

-----------------------------------------------------------------------------
(* 32-bit word arithmetic *)

Pow2 == <<1, 2, 4, 8, 16, 32, 64, 128, 256, 512, 1024, 2048, 4096, 8192,
          16384, 32768, 65536, 131072, 262144, 524288, 1048576, 2097152,
          4194304, 8388608, 16777216, 33554432, 67108864, 134217728,
          268435456, 536870912, 1073741824>>

\* 2^k for k in 0..30
P2(k) == Pow2[k + 1]

I32_MAX == 2147483647

I32_MIN == (-2147483647) - 1

\* the low 31 bits of the word v, as a number in 0..2^31-1
Low31(v) == IF v >= 0 THEN v ELSE (v + I32_MAX) + 1

\* bit t (0 = least significant, 31 = sign) of the word v
Bit(v, t) ==
    IF t = 31 THEN (IF v < 0 THEN 1 ELSE 0)
    ELSE (Low31(v) \div P2(t)) % 2

\* the word whose bits 0..n-1 are b[0..n-1] and whose other bits are 0
RECURSIVE SumBits(_, _)
SumBits(b, t) ==
    IF t < 0 THEN 0
    ELSE (IF b[t] = 1 THEN P2(t) ELSE 0) + SumBits(b, t - 1)

WordOf(b, n) ==
    IF n = 32 /\ b[31] = 1 THEN (SumBits(b, 30) - I32_MAX) - 1
    ELSE SumBits(b, IF n = 32 THEN 30 ELSE n - 1)

\* a | b on non-negative words
RECURSIVE NatOr(_, _)
NatOr(a, b) ==
    IF a = 0 THEN b
    ELSE IF b = 0 THEN a
    ELSE 2 * NatOr(a \div 2, b \div 2) + (IF a % 2 = 1 \/ b % 2 = 1 THEN 1 ELSE 0)

\* a | b on i32
BitOr(a, b) ==
    IF a >= 0 /\ b >= 0 THEN NatOr(a, b)
    ELSE (NatOr(Low31(a), Low31(b)) - I32_MAX) - 1

\* ceil(a / b) for a >= 0, b > 0
CeilDiv(a, b) == (a + b - 1) \div b

Max(a, b) == IF a >= b THEN a ELSE b

-----------------------------------------------------------------------------
(* core::store: variable-length integers (DataOutput::write_vint,          *)
(* DataInput::read_vint), seven bits per byte, low group first, bit 7 of a *)
(* byte set when another byte follows.  The i32 is written as its u32 bit  *)
(* pattern, so a negative i32 takes five bytes.                            *)

\* 7-bit group k (0..4) of the u32 bit pattern of v
Group7(v, k) ==
    IF k = 4 THEN (Low31(v) \div P2(28)) + (IF v < 0 THEN 8 ELSE 0)
    ELSE (Low31(v) \div P2(7 * k)) % 128

\* number of bytes write_vint emits for v
VIntLen(v) ==
    IF v < 0 THEN 5
    ELSE IF v < P2(7) THEN 1
    ELSE IF v < P2(14) THEN 2
    ELSE IF v < P2(21) THEN 3
    ELSE IF v < P2(28) THEN 4
    ELSE 5

write_vint(v) ==
    [k \in 1..VIntLen(v) |->
        IF k < VIntLen(v) THEN Group7(v, k - 1) + 128 ELSE Group7(v, k - 1)]

\* read_vint at offset pos of bytes: [ok, value, pos]; ok = FALSE on end of
\* input or on a fifth byte with bits 4..7 set
RECURSIVE ReadVIntFrom(_, _, _, _)
ReadVIntFrom(bytes, pos, k, low) ==
    IF pos >= Len(bytes) THEN [ok |-> FALSE, value |-> 0, pos |-> pos]
    ELSE LET b == bytes[pos + 1] IN
         IF k = 4 THEN
            IF b \div 16 # 0 THEN [ok |-> FALSE, value |-> 0, pos |-> pos + 1]
            ELSE LET u == low + (b % 8) * P2(28) IN
                 [ok |-> TRUE,
                  value |-> IF b >= 8 THEN (u - I32_MAX) - 1 ELSE u,
                  pos |-> pos + 1]
         ELSE LET l == low + (b % 128) * P2(7 * k) IN
              IF b < 128 THEN [ok |-> TRUE, value |-> l, pos |-> pos + 1]
              ELSE ReadVIntFrom(bytes, pos + 1, k + 1, l)

read_vint(bytes, pos) == ReadVIntFrom(bytes, pos, 0, 0)

-----------------------------------------------------------------------------
(* core::util::packed::packed_misc: the layout catalog.  Two families,     *)
(* Packed (values packed back to back, most significant bit first) and     *)
(* PackedSingleBlock (values packed into 64-bit words, never straddling a  *)
(* word), three protocol versions.                                         *)

BLOCK_SIZE == 128

VERSION_START == 0

VERSION_BYTE_ALIGNED == 1

VERSION_CURRENT == 2

Formats == {"Packed", "PackedSingleBlock"}

get_id(format) == IF format = "Packed" THEN 0 ELSE 1

\* bits-per-value PackedSingleBlock has a layout of its own for
SingleBlockBits == {1, 2, 3, 4, 5, 6, 7, 8, 9, 10, 12, 16, 21, 32}

is_supported(format, bits) ==
    IF format = "Packed" THEN bits \in 1..64 ELSE bits \in SingleBlockBits

\* Format::byte_count: bytes a run of valueCount values takes
byte_count(format, version, valueCount, bits) ==
    IF format = "Packed" THEN
        IF version < VERSION_BYTE_ALIGNED
        THEN 8 * CeilDiv(valueCount * bits, 64)
        ELSE CeilDiv(valueCount * bits, 8)
    ELSE 8 * CeilDiv(valueCount, 64 \div bits)

\* check_version: Ok exactly for VERSION_START..VERSION_CURRENT
check_version(version) == version >= VERSION_START /\ version <= VERSION_CURRENT

\* Format::with_id.  util.rs uses the result as a Format (no `?`), so an
\* unknown id cannot come back as an Err: the call either panics or yields
\* some Format.  The set of outcomes.
with_id(id) ==
    IF id = 0 THEN {"Packed"}
    ELSE IF id = 1 THEN {"PackedSingleBlock"}
    ELSE {"panic"} \cup Formats

\* the bulk operation behind get_decoder / get_encoder, as a record
Coder(format, bits) == [format |-> format, bits |-> bits]

\* get_decoder and get_encoder: Ok for every family and bits in 1..32 when
\* the version is supported (max_data_size asserts exactly that)
get_decoder_ok(format, version, bits) ==
    format \in Formats /\ check_version(version) /\ bits \in 1..32

RECURSIVE OddPart(_)
OddPart(n) == IF n % 2 = 0 THEN OddPart(n \div 2) ELSE n

RECURSIVE Reduce2(_, _)
Reduce2(a, b) ==
    IF a % 2 = 0 /\ b % 2 = 0 THEN Reduce2(a \div 2, b \div 2) ELSE <<a, b>>

\* bytes consumed / produced per iteration
byte_block_count(c) ==
    IF c.format = "Packed"
    THEN Reduce2(8 * OddPart(c.bits), (64 * OddPart(c.bits)) \div c.bits)[1]
    ELSE 8

\* values produced / consumed per iteration
byte_value_count(c) ==
    IF c.format = "Packed"
    THEN Reduce2(8 * OddPart(c.bits), (64 * OddPart(c.bits)) \div c.bits)[2]
    ELSE 64 \div c.bits

\* FormatAndBits::fastest(valueCount, bits, ratio), the ratio in quarters.
\* Clamped to [COMPACT, FASTEST] = [0, 7]; the allowed extra bits per value
\* are ratio * bits, truncated for the byte-aligned shortcuts.
FastestSingleBlock(bits, maxBits, perValue4) ==
    {b \in bits..maxBits :
        /\ b \in SingleBlockBits
        /\ 4 * (64 % b) <= (perValue4 + 4 * (bits - b)) * (64 \div b)}

Min(S) == CHOOSE x \in S : \A y \in S : x <= y

fastest(valueCount, bits, r4) ==
    LET r == IF r4 < 0 THEN 0 ELSE IF r4 > 28 THEN 28 ELSE r4
        perValue4 == r * bits
        maxBits == bits + (perValue4 \div 4)
        single == FastestSingleBlock(bits, maxBits, perValue4)
    IN  IF bits <= 8 /\ maxBits >= 8 THEN Coder("Packed", 8)
        ELSE IF bits <= 16 /\ maxBits >= 16 THEN Coder("Packed", 16)
        ELSE IF bits <= 32 /\ maxBits >= 32 THEN Coder("Packed", 32)
        ELSE IF bits <= 64 /\ maxBits >= 64 THEN Coder("Packed", 64)
        ELSE IF bits <= 24 /\ maxBits >= 24 THEN Coder("Packed", 24)
        ELSE IF bits <= 48 /\ maxBits >= 48 THEN Coder("Packed", 48)
        ELSE IF single # {} THEN Coder("PackedSingleBlock", Min(single))
        ELSE Coder("Packed", bits)

\* unsigned_bits_required(bits: i64) = max(1, 64 - leading_zeros), applied to
\* a sign-extended i32
RECURSIVE BitLength(_)
BitLength(v) == IF v = 0 THEN 0 ELSE 1 + BitLength(v \div 2)

unsigned_bits_required(v) == IF v < 0 THEN 64 ELSE Max(1, BitLength(v))

(* Bulk encode / decode.  `data` and `encoded` are sequences; the coder     *)
(* runs `iters` whole iterations, reading and writing past BLOCK_SIZE when *)
(* its batch does not divide the block.                                    *)

\* bit b (0 = least significant) of the byte x
ByteBit(x, b) == (x \div P2(b)) % 2

\* bit q (0 = least significant) of the 64-bit word PackedSingleBlock builds
\* from the values at data[off + 1 ..]: the OR of value j shifted by j * bits
LongBit(data, off, bits, q) ==
    IF \E j \in (IF q > 31 THEN CeilDiv(q - 31, bits) ELSE 0)..(q \div bits) :
            /\ j < 64 \div bits
            /\ Bit(data[off + j + 1], q - j * bits) = 1
    THEN 1 ELSE 0

RECURSIVE ByteOf(_, _)
\* the byte whose bits, most significant first, are bits[1..8]
ByteOf(bits, n) ==
    IF n = 0 THEN 0 ELSE 2 * ByteOf(bits, n - 1) + bits[n]

encode_int_to_byte(c, data, iters) ==
    IF c.format = "Packed" THEN
        [k \in 1..(iters * byte_block_count(c)) |->
            ByteOf([b \in 1..8 |->
                     LET p == 8 * (k - 1) + (b - 1) IN
                     Bit(data[(p \div c.bits) + 1], c.bits - 1 - (p % c.bits))],
                   8)]
    ELSE
        [k \in 1..(iters * 8) |->
            ByteOf([b \in 1..8 |->
                     LongBit(data, ((k - 1) \div 8) * (64 \div c.bits), c.bits,
                             63 - 8 * ((k - 1) % 8) - (b - 1))],
                   8)]

\* bit at stream position p (bit 0 of the stream is bit 7 of encoded[1]);
\* a byte past the end of what was read reads as 0
StreamBit(encoded, p) ==
    IF (p \div 8) + 1 > Len(encoded) THEN 0
    ELSE ByteBit(encoded[(p \div 8) + 1], 7 - (p % 8))

\* bit q of the 64-bit word stored big-endian at encoded[off + 1 .. off + 8]
StoredLongBit(encoded, off, q) ==
    IF off + 8 - (q \div 8) > Len(encoded) THEN 0
    ELSE ByteBit(encoded[off + 8 - (q \div 8)], q % 8)

\* the values one decode call produces: iters * byte_value_count of them
decode_byte_to_int(c, encoded, iters) ==
    IF c.format = "Packed" THEN
        [i \in 1..(iters * byte_value_count(c)) |->
            WordOf([t \in 0..(c.bits - 1) |->
                     StreamBit(encoded, (i - 1) * c.bits + (c.bits - 1 - t))],
                   c.bits)]
    ELSE
        LET vpc == 64 \div c.bits IN
        [i \in 1..(iters * vpc) |->
            WordOf([t \in 0..(c.bits - 1) |->
                     StoredLongBit(encoded, 8 * ((i - 1) \div vpc),
                                   ((i - 1) % vpc) * c.bits + t)],
                   c.bits)]

-----------------------------------------------------------------------------
(* util.rs *)

ALL_VALUES_EQUAL == 0

\* faulty variant of compute_iterations: the quotient truncated, not rounded up
compute_iterations_floor(decoder) == BLOCK_SIZE \div byte_value_count(decoder)

\* (BLOCK_SIZE as f32 / byte_value_count as f32).ceil(): the quotient of 128
\* by a count of at most 64 is exact or at least 1/64 away from an integer,
\* so the f32 ceiling is the integer ceiling
compute_iterations(decoder) == CeilDiv(BLOCK_SIZE, byte_value_count(decoder))

encoded_size(format, version, bits_per_value) ==
    byte_count(format, version, BLOCK_SIZE, bits_per_value)

\* the pairs the closure of max_data_size visits, in its order
ScanOrder ==
    [n \in 1..((VERSION_CURRENT - VERSION_START + 1) * 64) |->
        [version |-> VERSION_START + ((n - 1) \div 64),
         format |-> IF ((n - 1) % 64) < 32 THEN "Packed" ELSE "PackedSingleBlock",
         bpv |-> ((n - 1) % 32) + 1]]

\* faulty variant of ScanStep: only the Packed family is scanned
ScanStep_packed_only(local, e) ==
    IF e.format = "Packed"
    THEN Max(local,
             CeilDiv(BLOCK_SIZE, byte_value_count(Coder(e.format, e.bpv)))
               * byte_value_count(Coder(e.format, e.bpv)))
    ELSE local

\* one turn of an inner loop of the closure: the new local max_data_size, or
\* -1 when get_decoder fails (assert!(false, ..) panics)
ScanStep(local, e) ==
    IF get_decoder_ok(e.format, e.version, e.bpv)
    THEN Max(local,
             compute_iterations(Coder(e.format, e.bpv))
               * byte_value_count(Coder(e.format, e.bpv)))
    ELSE -1

\* the turns lo..hi of the closure's loops, in order, from the local value
\* `local`; a panic (-1) ends the scan
RECURSIVE ScanRange(_, _, _)
ScanRange(local, lo, hi) ==
    IF local < 0 THEN local
    ELSE IF lo = hi THEN ScanStep(local, ScanOrder[lo])
    ELSE LET left == ScanRange(local, lo, (lo + hi) \div 2)
         IN ScanRange(left, ((lo + hi) \div 2) + 1, hi)

\* the value the closure stores into MAX_DATA_SIZE
max_data_size == ScanRange(0, 1, Len(ScanOrder))

NoTable == [none |-> TRUE]

Zero33 == [i \in 0..32 |-> 0]

\* the integer code of a format choice: format.get_id() << 5 | (bits - 1)
FormatCode(format, bits_per_value) ==
    BitOr(get_id(format) * 32, bits_per_value - 1)

\* the reader's split of a code: ((code as usize) >> 5) as i32
CodeFormatId(code) == code \div 32

\* faulty variant of CodeBits: the + 1 forgotten
CodeBits_no_increment(code) == code % 32

\* (code & 31) + 1
CodeBits(code) == (code % 32) + 1

\* decoders.push / encoders.push of one loop turn: twice when bpv == 1
PushCoder(vec, bpv, c) ==
    IF bpv = 1 THEN Append(Append(vec, c), c) ELSE Append(vec, c)

\* with_output from bits-per-value bpv on; st carries the arrays built so far
\* and the bytes written so far; dbg: the build keeps debug_assert!
RECURSIVE OutputLoop(_, _, _, _)
OutputLoop(r4, dbg, bpv, st) ==
    IF bpv > 32 THEN [st EXCEPT !.status = "ok"]
    ELSE
      LET fb == fastest(BLOCK_SIZE, bpv, r4) IN
      IF dbg /\ ~ is_supported(fb.format, fb.bits)
      THEN [st EXCEPT !.status = "panic_debug_assert_117"]
      ELSE IF dbg /\ ~ (fb.bits <= 32)
      THEN [st EXCEPT !.status = "panic_debug_assert_120"]
      ELSE IF ~ get_decoder_ok(fb.format, VERSION_CURRENT, fb.bits)
      THEN [st EXCEPT !.status = "UnsupportedLayout"]
      ELSE
        LET decs == PushCoder(st.decoders, bpv, fb)
        IN OutputLoop(r4, dbg, bpv + 1,
             [status |-> st.status,
              encoded_sizes |-> [st.encoded_sizes EXCEPT
                                   ![bpv] = encoded_size(fb.format, VERSION_CURRENT, fb.bits)],
              encoders |-> PushCoder(st.encoders, bpv, fb),
              decoders |-> decs,
              iterations |-> [st.iterations EXCEPT
                                ![bpv] = compute_iterations(decs[bpv + 1])],
              out |-> st.out \o write_vint(FormatCode(fb.format, fb.bits))])

\* [status, encoded_sizes, decoders, encoders, iterations, out]: the table
\* and the header bytes written to the output
with_output(r4, dbg) ==
    OutputLoop(r4, dbg, 1,
        [status |-> "running", encoded_sizes |-> Zero33, encoders |-> << >>,
         decoders |-> << >>, iterations |-> Zero33,
         out |-> write_vint(VERSION_CURRENT)])

\* with_input from bits-per-value bpv on; unk is what Format::with_id does
\* with an id it does not know
RECURSIVE InputLoop(_, _, _, _, _)
InputLoop(bytes, version, unk, bpv, st) ==
    IF bpv > 32 THEN [st EXCEPT !.status = "ok"]
    ELSE
      LET rd == read_vint(bytes, st.pos) IN
      IF ~ rd.ok THEN [st EXCEPT !.status = "IoError", !.pos = rd.pos]
      ELSE
        LET format_id == CodeFormatId(rd.value)
            bits_per_value == CodeBits(rd.value)
            format == IF format_id \in {0, 1}
                      THEN CHOOSE f \in with_id(format_id) : TRUE
                      ELSE unk
        IN
        IF format = "panic" THEN [st EXCEPT !.status = "panic", !.pos = rd.pos]
        ELSE IF ~ get_decoder_ok(format, version, bits_per_value)
        THEN [st EXCEPT !.status = "UnsupportedLayout", !.pos = rd.pos]
        ELSE
          LET decs == PushCoder(st.decoders, bpv, Coder(format, bits_per_value))
          IN InputLoop(bytes, version, unk, bpv + 1,
               [status |-> st.status,
                pos |-> rd.pos,
                encoded_sizes |-> [st.encoded_sizes EXCEPT
                                     ![bpv] = encoded_size(format, version, bits_per_value)],
                encoders |-> << >>,
                decoders |-> decs,
                iterations |-> [st.iterations EXCEPT
                                  ![bpv] = compute_iterations(decs[bpv + 1])]])

\* faulty variant of VersionAccepted: only the upper end of the range checked
VersionAccepted_upper_only(version) == version <= VERSION_CURRENT

\* check_version(packed_ints_version)? of with_input
VersionAccepted(version) == check_version(version)

\* [status, pos, encoded_sizes, decoders, encoders, iterations]
with_input(bytes, unk) ==
    LET rd == read_vint(bytes, 0)
        st0 == [status |-> "running", pos |-> rd.pos, encoded_sizes |-> Zero33,
                encoders |-> << >>, decoders |-> << >>, iterations |-> Zero33]
    IN  IF ~ rd.ok THEN [st0 EXCEPT !.status = "IoError"]
        ELSE IF ~ VersionAccepted(rd.value)
        THEN [st0 EXCEPT !.status = "UnsupportedVersion"]
        ELSE InputLoop(bytes, rd.value, unk, 1, st0)

\* the ForUtilInstance a constructor returns on Ok
TableOf(st) ==
    [encoded_sizes |-> st.encoded_sizes, decoders |-> st.decoders,
     encoders |-> st.encoders, iterations |-> st.iterations]

\* faulty variant of is_all_equal: the last slot is not compared
is_all_equal_short(data) == \A i \in 2..(BLOCK_SIZE - 1) : data[i] = data[1]

\* the data[..BLOCK_SIZE] loop of is_all_equal
is_all_equal(data) == \A i \in 2..BLOCK_SIZE : data[i] = data[1]

\* or |= *i over data[lo..hi] (1-based), in order
RECURSIVE OrFold(_, _, _)
OrFold(data, lo, hi) ==
    IF lo = hi THEN data[lo]
    ELSE BitOr(OrFold(data, lo, (lo + hi) \div 2),
               OrFold(data, ((lo + hi) \div 2) + 1, hi))

\* faulty variant of bits_required: the last slot is left out of the OR
bits_required_short(data, dbg) ==
    IF dbg /\ (\E i \in 1..BLOCK_SIZE : data[i] < 0) THEN -1
    ELSE unsigned_bits_required(BitOr(0, OrFold(data, 1, BLOCK_SIZE - 1)))

\* bits_required; dbg: the build keeps debug_assert!; -1 when one of them
\* stops a debug build
bits_required(data, dbg) ==
    IF dbg /\ (\E i \in 1..BLOCK_SIZE : data[i] < 0) THEN -1
    ELSE unsigned_bits_required(BitOr(0, OrFold(data, 1, BLOCK_SIZE)))

MAX_ENCODED_SIZE == BLOCK_SIZE * 4

\* write_block: [status, bytes], bytes being what the call appends to `out`.
\* `encoded` is the caller's scratch of MAX_ENCODED_SIZE bytes (zeroed)
write_block(table, data, dbg) ==
    IF is_all_equal(data)
    THEN [status |-> "ok", bytes |-> <<ALL_VALUES_EQUAL>> \o write_vint(data[1])]
    ELSE
      LET num_bits == bits_required(data, dbg) IN
      IF num_bits = -1 THEN [status |-> "panic_debug_assert_250", bytes |-> << >>]
      ELSE IF ~ (num_bits > 0 /\ num_bits <= 32)
      THEN [status |-> "panic_assert_270", bytes |-> << >>]
      ELSE
        LET iters == table.iterations[num_bits]
            encoder == table.encoders[num_bits + 1]
            size == table.encoded_sizes[num_bits]
        IN
        IF ~ (iters * byte_value_count(encoder) >= BLOCK_SIZE)
        THEN [status |-> "panic_assert_274", bytes |-> << >>]
        ELSE IF dbg /\ ~ (iters * byte_block_count(encoder) >= size)
        THEN [status |-> "panic_debug_assert_276", bytes |-> << >>]
        ELSE IF iters * byte_value_count(encoder) > Len(data)
                \/ iters * byte_block_count(encoder) > MAX_ENCODED_SIZE
                \/ size > MAX_ENCODED_SIZE
        THEN [status |-> "panic_index", bytes |-> <<num_bits>>]
        ELSE
          LET enc == encode_int_to_byte(encoder, data, iters) IN
          [status |-> "ok",
           bytes |-> <<num_bits>> \o
                     [k \in 1..size |-> IF k <= Len(enc) THEN enc[k] ELSE 0]]

\* faulty variant of SkipLength: the seek starts from the marker's position
SkipLength_from_marker(table, num_bits) == table.encoded_sizes[num_bits] - 1

\* the payload length skip_block seeks over for a packed block
SkipLength(table, num_bits) == table.encoded_sizes[num_bits]

\* skip_block at file pointer pos: [status, pos]
skip_block(table, bytes, pos) ==
    IF pos >= Len(bytes) THEN [status |-> "IoError", pos |-> pos]
    ELSE
      LET num_bits == bytes[pos + 1] IN
      IF num_bits = ALL_VALUES_EQUAL THEN
         LET rd == read_vint(bytes, pos + 1) IN
         [status |-> IF rd.ok THEN "ok" ELSE "IoError", pos |-> rd.pos]
      ELSE IF num_bits > 32 THEN [status |-> "panic_index", pos |-> pos + 1]
      ELSE IF pos + 1 + SkipLength(table, num_bits) > Len(bytes)
      THEN [status |-> "IoError", pos |-> pos + 1]
      ELSE [status |-> "ok", pos |-> pos + 1 + SkipLength(table, num_bits)]

\* the payload length read_block reads for a packed block
ReadLength(table, num_bits) == table.encoded_sizes[num_bits]

\* faulty variant of FillConstant: the last slot of the block is not filled
FillConstant_short(dec, value) ==
    [i \in 1..Len(dec) |-> IF i < BLOCK_SIZE THEN value ELSE dec[i]]

\* the values read_block stores for a constant block
FillConstant(dec, value) ==
    [i \in 1..Len(dec) |-> IF i <= BLOCK_SIZE THEN value ELSE dec[i]]

\* read_block at file pointer pos into the buffer dec: [status, pos, decoded]
read_block(table, bytes, pos, dec) ==
    IF pos >= Len(bytes) THEN [status |-> "IoError", pos |-> pos, decoded |-> dec]
    ELSE
      LET num_bits == bytes[pos + 1] IN
      IF num_bits = ALL_VALUES_EQUAL THEN
         LET rd == read_vint(bytes, pos + 1) IN
         IF ~ rd.ok THEN [status |-> "IoError", pos |-> rd.pos, decoded |-> dec]
         ELSE IF BLOCK_SIZE > Len(dec)
         THEN [status |-> "panic_index", pos |-> rd.pos, decoded |-> dec]
         ELSE [status |-> "ok", pos |-> rd.pos, decoded |-> FillConstant(dec, rd.value)]
      ELSE IF num_bits > 32
      THEN [status |-> "panic_index", pos |-> pos + 1, decoded |-> dec]
      ELSE
        LET size == ReadLength(table, num_bits)
            decoder == table.decoders[num_bits + 1]
            iters == table.iterations[num_bits]
        IN
        IF size > MAX_ENCODED_SIZE
        THEN [status |-> "panic_index", pos |-> pos + 1, decoded |-> dec]
        ELSE IF pos + 1 + size > Len(bytes)
        THEN [status |-> "IoError", pos |-> pos + 1, decoded |-> dec]
        ELSE IF iters * byte_value_count(decoder) > Len(dec)
        THEN [status |-> "panic_index", pos |-> pos + 1 + size, decoded |-> dec]
        ELSE
          LET vals == decode_byte_to_int(decoder,
                                         SubSeq(bytes, pos + 2, pos + 1 + size), iters)
          IN [status |-> "ok", pos |-> pos + 1 + size,
              decoded |-> [i \in 1..Len(dec) |->
                             IF i <= Len(vals) THEN vals[i] ELSE dec[i]]]

-----------------------------------------------------------------------------
(* Inputs *)

\* blocks a stream may hold
MaxBlocks == 2

\* threads calling max_data_size()
NumThreads == 2

\* calls of max_data_size() per thread
MaxCalls == 2

\* acceptable_overhead_ratio in quarters: COMPACT, DEFAULT, FAST, FASTEST
Ratios == {0, 1, 2, 28}

\* callers size their value buffers with max_data_size()
Cap == max_data_size

\* a data buffer: slot i <= BLOCK_SIZE holds b at i = p and a + s * (i % m)
\* elsewhere; the slots after BLOCK_SIZE hold the stale value g
DataOf(d) ==
    [i \in 1..Cap |->
        IF i > BLOCK_SIZE THEN d.g
        ELSE IF i = d.p THEN d.b
        ELSE d.a + d.s * (i % d.m)]

Desc(a, s, m, p, b, g) == [a |-> a, s |-> s, m |-> m, p |-> p, b |-> b, g |-> g]

\* constant blocks: 0, a two-byte vint, a five-byte vint, all 32 bits set,
\* bit 31 alone
ConstData ==
    {Desc(0, 0, 1, 0, 0, 0), Desc(200, 0, 1, 0, 0, 7),
     Desc(I32_MAX, 0, 1, 0, 0, 0), Desc(-1, 0, 1, 0, 0, 0),
     Desc(I32_MIN, 0, 1, 0, 0, 0)}

\* non-constant blocks of non-negative values: 1..128, a single 1 in the last
\* slot, a single 1 in the first slot, 0..7 with a stale tail, maximum 200,
\* OR 7 with maximum 5, 18 bits, 31 bits
PackedData ==
    {Desc(0, 1, 129, 0, 0, 0), Desc(0, 0, 1, 128, 1, 0),
     Desc(0, 0, 1, 1, 1, I32_MAX), Desc(0, 1, 8, 0, 0, I32_MAX),
     Desc(7, 0, 1, 64, 200, 0), Desc(5, 0, 1, 3, 2, 0),
     Desc(3, 1, 100, 77, 262143, 200), Desc(1, 0, 1, 2, I32_MAX, 0)}

\* non-constant blocks holding a word with bit 31 set (2^31 and above as u32)
HighBitData == {Desc(0, 0, 1, 5, I32_MIN, 0), Desc(1, 0, 1, 128, -1, 0)}

FirstData == ConstData \cup PackedData \cup HighBitData

\* what later blocks of a stream are drawn from: a constant block and a
\* packed block with a stale tail
FollowData == {Desc(200, 0, 1, 0, 0, 7), Desc(0, 1, 8, 0, 0, I32_MAX)}

NonNegative(d) == \A i \in 1..BLOCK_SIZE : DataOf(d)[i] >= 0

\* no write_block call yet
NoData == [none |-> TRUE]

\* bytes of a header: the version tag and 32 one-byte codes
HeaderLen == 1 + 32

-----------------------------------------------------------------------------
(* Writer and reader *)

Init ==
    /\ ratio4 = 0
    /\ file = << >>
    /\ foreign = FALSE
    /\ wtable = NoTable
    /\ wstatus = "none"
    /\ lastData = NoData
    /\ written = << >>
    /\ starts = << >>
    /\ rtable = NoTable
    /\ rstatus = "none"
    /\ inPos = 0
    /\ ops = << >>
    /\ decoded = [i \in 1..Cap |-> 0]
    /\ START = "incomplete"
    /\ MAX_DATA_SIZE = 0
    /\ pc = [t \in 1..NumThreads |-> "idle"]
    /\ acc = [t \in 1..NumThreads |-> 0]
    /\ cursor = [t \in 1..NumThreads |-> 0]
    /\ ret = [t \in 1..NumThreads |-> << >>]
    /\ scans = 0

readerVars == <<rtable, rstatus, inPos, ops, decoded>>

writerVars == <<ratio4, wtable, wstatus, lastData>>

\* ForUtil::with_output on a fresh output
WithOutput ==
    /\ wstatus = "none"
    /\ \E r4 \in Ratios, dbg \in BOOLEAN :
         LET res == with_output(r4, dbg) IN
         /\ ratio4' = r4
         /\ file' = res.out
         /\ wstatus' = res.status
         /\ wtable' = IF res.status = "ok" THEN TableOf(res) ELSE NoTable
    /\ UNCHANGED <<foreign, lastData, written, starts>>
    /\ UNCHANGED readerVars
    /\ UNCHANGED onceVars

\* ForUtil::write_block on the next data buffer
WriteBlock ==
    /\ wstatus = "ok"
    /\ rstatus = "none"
    /\ ~ foreign
    /\ Len(written) < MaxBlocks
    /\ \E d \in (IF written = << >> THEN FirstData ELSE FollowData), dbg \in BOOLEAN :
         LET res == write_block(wtable, DataOf(d), dbg) IN
         /\ wstatus' = res.status
         /\ lastData' = d
         /\ file' = file \o res.bytes
         /\ written' = IF res.status = "ok" THEN Append(written, d) ELSE written
         /\ starts' = IF res.status = "ok" THEN Append(starts, Len(file)) ELSE starts
    /\ UNCHANGED <<ratio4, wtable, foreign>>
    /\ UNCHANGED readerVars
    /\ UNCHANGED onceVars

\* ForUtil::with_input on the file; unk is what Format::with_id does with an
\* id it does not know
WithInput ==
    /\ rstatus = "none"
    /\ wstatus # "none"
    /\ \E unk \in with_id(2) :
         LET res == with_input(file, unk) IN
         /\ rstatus' = res.status
         /\ inPos' = res.pos
         /\ rtable' = IF res.status = "ok" THEN TableOf(res) ELSE NoTable
    /\ UNCHANGED <<ops, decoded>>
    /\ UNCHANGED <<file, foreign, written, starts>>
    /\ UNCHANGED writerVars
    /\ UNCHANGED onceVars

\* ForUtil::read_block at the reader's file pointer
ReadBlock ==
    /\ rstatus = "ok"
    /\ Len(ops) < Len(starts)
    /\ LET res == read_block(rtable, file, inPos, decoded) IN
         /\ rstatus' = res.status
         /\ inPos' = res.pos
         /\ decoded' = res.decoded
    /\ ops' = Append(ops, "read")
    /\ UNCHANGED rtable
    /\ UNCHANGED <<file, foreign, written, starts>>
    /\ UNCHANGED writerVars
    /\ UNCHANGED onceVars

\* ForUtil::skip_block at the reader's file pointer
SkipBlock ==
    /\ rstatus = "ok"
    /\ Len(ops) < Len(starts)
    /\ LET res == skip_block(rtable, file, inPos) IN
         /\ rstatus' = res.status
         /\ inPos' = res.pos
    /\ ops' = Append(ops, "skip")
    /\ UNCHANGED <<rtable, decoded>>
    /\ UNCHANGED <<file, foreign, written, starts>>
    /\ UNCHANGED writerVars
    /\ UNCHANGED onceVars

Next == WithOutput \/ WriteBlock \/ WithInput \/ ReadBlock \/ SkipBlock

Spec == Init /\ [][Next]_vars

-----------------------------------------------------------------------------
(* A reader opening a file whose header or block this writer did not write *)

\* version tags a foreign header may carry
TamperVersions == {-1, 0, 1, 3, 200}

\* family ids and bits-per-value a foreign header code may carry
TamperIds == 0..2

TamperBits == {3, 32}

\* the header's version tag is replaced
TamperVersion ==
    /\ wstatus = "ok" /\ rstatus = "none" /\ ~ foreign /\ starts = << >>
    /\ \E v \in TamperVersions :
         file' = write_vint(v) \o SubSeq(file, 2, Len(file))
    /\ foreign' = TRUE
    /\ UNCHANGED <<written, starts>>
    /\ UNCHANGED writerVars
    /\ UNCHANGED readerVars
    /\ UNCHANGED onceVars

\* the header's code for one bits-per-value slot is replaced
TamperCode ==
    /\ wstatus = "ok" /\ rstatus = "none" /\ ~ foreign /\ starts = << >>
    /\ \E slot \in 1..32, id \in TamperIds, bits \in TamperBits :
         file' = [file EXCEPT ![1 + slot] = id * 32 + (bits - 1)]
    /\ foreign' = TRUE
    /\ UNCHANGED <<written, starts>>
    /\ UNCHANGED writerVars
    /\ UNCHANGED readerVars
    /\ UNCHANGED onceVars

\* the code the writer persisted for slot k
WrittenCode(k) == FormatCode(wtable.decoders[k + 1].format, wtable.decoders[k + 1].bits)

\* the slot whose code differs from the writer's, 0 when none does
TamperedSlot ==
    IF \E k \in 1..32 : file[1 + k] # WrittenCode(k)
    THEN CHOOSE k \in 1..32 : file[1 + k] # WrittenCode(k)
    ELSE 0

\* a packed block with marker m and a payload of all-ones bytes follows the
\* header
ForeignBlock ==
    /\ wstatus = "ok" /\ rstatus = "none" /\ starts = << >>
    /\ Len(file) = HeaderLen
    /\ \E m \in (IF TamperedSlot # 0 THEN {TamperedSlot} ELSE 1..32) :
         /\ file' = file \o <<m>> \o [k \in 1..MAX_ENCODED_SIZE |-> 255]
    /\ starts' = <<Len(file)>>
    /\ foreign' = TRUE
    /\ UNCHANGED written
    /\ UNCHANGED writerVars
    /\ UNCHANGED readerVars
    /\ UNCHANGED onceVars

NextHeader ==
    WithOutput \/ TamperVersion \/ TamperCode \/ ForeignBlock \/ WithInput
        \/ ReadBlock \/ SkipBlock

SpecHeader == Init /\ [][NextHeader]_vars

-----------------------------------------------------------------------------
(* max_data_size() called from several threads *)

Threads == 1..NumThreads

\* faulty variant of OnceMayRun: a caller does not wait for a running closure
OnceMayRun_unguarded(state) == state \in {"incomplete", "running"}

\* Once::call_once runs the closure for the caller that finds it not started
OnceMayRun(state) == state = "incomplete"

\* Once::call_once returns without running the closure once it has completed
OnceMayPass(state) == state = "complete"

\* what the closure stores: unsafe { MAX_DATA_SIZE = max_data_size }
StoredValue(local) == local

\* a thread enters max_data_size()
Call ==
    /\ \E t \in Threads :
         /\ pc[t] = "idle"
         /\ Len(ret[t]) < MaxCalls
         /\ pc' = [pc EXCEPT ![t] = "call"]
    /\ UNCHANGED <<START, MAX_DATA_SIZE, acc, cursor, ret, scans>>
    /\ UNCHANGED codecVars

\* START.call_once: this caller runs the closure
OnceEnter ==
    /\ \E t \in Threads :
         /\ pc[t] = "call"
         /\ OnceMayRun(START)
         /\ START' = "running"
         /\ pc' = [pc EXCEPT ![t] = "scan"]
         /\ acc' = [acc EXCEPT ![t] = 0]
         /\ cursor' = [cursor EXCEPT ![t] = 1]
    /\ scans' = scans + 1
    /\ UNCHANGED <<MAX_DATA_SIZE, ret>>
    /\ UNCHANGED codecVars

\* START.call_once: the closure has run, the caller goes on (a caller that
\* finds the Once running waits; one that finds it poisoned panics)
OncePass ==
    /\ \E t \in Threads :
         /\ pc[t] = "call"
         /\ OnceMayPass(START) \/ START = "poisoned"
         /\ pc' = [pc EXCEPT ![t] = IF START = "poisoned" THEN "panicked" ELSE "read"]
    /\ UNCHANGED <<START, MAX_DATA_SIZE, acc, cursor, ret, scans>>
    /\ UNCHANGED codecVars

\* one turn of the closure's loops
ScanTurn ==
    /\ \E t \in Threads :
         /\ pc[t] = "scan"
         /\ LET local == ScanStep(acc[t], ScanOrder[cursor[t]]) IN
              /\ acc' = [acc EXCEPT ![t] = local]
              /\ cursor' = [cursor EXCEPT ![t] = @ + 1]
              /\ pc' = [pc EXCEPT ![t] =
                          IF local < 0 THEN "panicked"
                          ELSE IF cursor[t] = Len(ScanOrder) THEN "store"
                          ELSE "scan"]
              /\ START' = IF local < 0 THEN "poisoned" ELSE START
    /\ UNCHANGED <<MAX_DATA_SIZE, ret, scans>>
    /\ UNCHANGED codecVars

\* unsafe { MAX_DATA_SIZE = max_data_size }
Store ==
    /\ \E t \in Threads :
         /\ pc[t] = "store"
         /\ MAX_DATA_SIZE' = StoredValue(acc[t])
         /\ pc' = [pc EXCEPT ![t] = "complete"]
    /\ UNCHANGED <<START, acc, cursor, ret, scans>>
    /\ UNCHANGED codecVars

\* the closure returns: the Once is marked complete and waiters are released
Complete ==
    /\ \E t \in Threads :
         /\ pc[t] = "complete"
         /\ START' = "complete"
         /\ pc' = [pc EXCEPT ![t] = "read"]
    /\ UNCHANGED <<MAX_DATA_SIZE, acc, cursor, ret, scans>>
    /\ UNCHANGED codecVars

\* unsafe { MAX_DATA_SIZE }: the value max_data_size() returns
Return ==
    /\ \E t \in Threads :
         /\ pc[t] = "read"
         /\ ret' = [ret EXCEPT ![t] = Append(@, MAX_DATA_SIZE)]
         /\ pc' = [pc EXCEPT ![t] = "idle"]
    /\ UNCHANGED <<START, MAX_DATA_SIZE, acc, cursor, scans>>
    /\ UNCHANGED codecVars

NextOnce ==
    Call \/ OnceEnter \/ OncePass \/ ScanTurn \/ Store \/ Complete \/ Return

SpecOnce == Init /\ [][NextOnce]_vars

-----------------------------------------------------------------------------
(* Properties *)

\* the reader's last call was a read_block that returned Ok
LastRead == ops # << >> /\ ops[Len(ops)] = "read" /\ rstatus = "ok"

\* where block k ends in the file
BlockEnd(k) == IF k < Len(starts) THEN starts[k + 1] ELSE Len(file)

BlockBytes(k) == SubSeq(file, starts[k] + 1, BlockEnd(k))

Marker(k) == file[starts[k] + 1]

\* every slot of the block holds the same value
Constant(data) == \A i \in 1..BLOCK_SIZE : data[i] = data[BLOCK_SIZE]

\* the first BLOCK_SIZE slots of the decoded buffer equal those of data
DecodedIs(data) == \A i \in 1..BLOCK_SIZE : decoded[i] = data[i]

\* C1 (as amended): for any block of B non-negative i32 values (each below
\* 2^31), under every overhead ratio, write_block succeeds and read_block on
\* the bytes it produced, with the table rebuilt from the persisted header,
\* leaves decoded[i] = values[i] for every i in [0, B); a block that was
\* written and read back always decodes to itself.
C1_RoundTripNonNegative ==
    /\ (wstatus \notin {"none", "ok"} /\ lastData # NoData) => ~ NonNegative(lastData)
    /\ (LastRead /\ ~ foreign) => DecodedIs(DataOf(written[Len(ops)]))

\* a non-constant block stored through a PackedSingleBlock slot whose
\* iterations overshoot the block was read back
C1_Witness ==
    /\ LastRead /\ ~ foreign
    /\ ~ Constant(DataOf(written[Len(ops)]))
    /\ rtable.decoders[Marker(Len(ops)) + 1].format = "PackedSingleBlock"
    /\ rtable.iterations[Marker(Len(ops))]
         * byte_value_count(rtable.decoders[Marker(Len(ops)) + 1]) > BLOCK_SIZE

\* C1 as stated, the values being any 32-bit words (integers below 2^32):
\* every write_block call succeeds and every block read back decodes to
\* itself.
C1_Original ==
    /\ wstatus \in {"none", "ok"}
    /\ (LastRead /\ ~ foreign) => DecodedIs(DataOf(written[Len(ops)]))

\* the reader's state after n sequential read_block calls from the end of the
\* header
RECURSIVE SeqRead(_)
SeqRead(n) ==
    IF n = 0
    THEN [status |-> "ok", pos |-> HeaderLen, decoded |-> [i \in 1..Cap |-> 0]]
    ELSE LET prev == SeqRead(n - 1)
         IN read_block(rtable, file, prev.pos, prev.decoded)

\* bytes of the block at offset pos: the marker, then one vint or
\* encoded_size[marker] bytes
WireLength(pos) ==
    IF file[pos + 1] = 0
    THEN 1 + (read_vint(file, pos + 1).pos - (pos + 1))
    ELSE 1 + rtable.encoded_sizes[file[pos + 1]]

\* C2: after any mix of skip_block and read_block calls over the first k
\* blocks the file pointer is where k sequential read_block calls leave it,
\* a block read after skips decodes to what the sequential reads give for
\* that block, and on every block skip_block and read_block leave the same
\* position: the marker plus one vint, or plus encoded_size[bits] bytes.
C2_SkipEquivalence ==
    (rstatus = "ok" /\ ~ foreign) =>
        LET seq == SeqRead(Len(ops)) IN
        /\ inPos = seq.pos
        /\ LastRead => \A i \in 1..BLOCK_SIZE : decoded[i] = seq.decoded[i]
        /\ Len(ops) < Len(starts) =>
             LET sk == skip_block(rtable, file, inPos)
                 rd == read_block(rtable, file, inPos, decoded)
             IN /\ sk.status = "ok" /\ rd.status = "ok"
                /\ sk.pos = rd.pos
                /\ sk.pos = inPos + WireLength(inPos)

\* a packed block was skipped and the block after it was read
C2_Witness ==
    /\ Len(ops) = 2 /\ ops[1] = "skip" /\ LastRead
    /\ Marker(1) # 0
    /\ DecodedIs(DataOf(written[2]))

\* C3: the header with_output writes is the version followed by the 32 codes
\* (family_id << 5) | (bits - 1) in slot order, the reader's split of each
\* code gives back the family id and the bits, and with_input on that header
\* succeeds with the same encoded_sizes and iterations as the writer's.
C3_HeaderRoundTrip ==
    /\ (wstatus = "ok" /\ ~ foreign) =>
         /\ SubSeq(file, 1, 1) = <<VERSION_CURRENT>>
         /\ \A k \in 1..32 :
              LET c == wtable.decoders[k + 1] IN
              /\ file[1 + k] = get_id(c.format) * 32 + (c.bits - 1)
              /\ CodeFormatId(file[1 + k]) = get_id(c.format)
              /\ CodeBits(file[1 + k]) = c.bits
    /\ (rstatus # "none" /\ ~ foreign) =>
         /\ rtable # NoTable
         /\ rtable.encoded_sizes = wtable.encoded_sizes
         /\ rtable.iterations = wtable.iterations

\* a reader table was built from a header that holds a PackedSingleBlock
\* code and a code whose bits differ from its slot
C3_Witness ==
    /\ rtable # NoTable /\ ~ foreign
    /\ \E k \in 1..32 : wtable.decoders[k + 1].format = "PackedSingleBlock"
    /\ \E k \in 1..32 : wtable.decoders[k + 1].bits # k

\* C4: for every version, family and bits-per-value the decoder's whole
\* iterations cover at most max_data_size() values; so does every slot of
\* every table with_output or with_input built, and no read_block call
\* stores past a buffer of max_data_size() slots.
C4_CapacityBound ==
    LET bound == max_data_size IN
    /\ \A e \in {ScanOrder[n] : n \in 1..Len(ScanOrder)} :
         compute_iterations(Coder(e.format, e.bpv))
           * byte_value_count(Coder(e.format, e.bpv)) <= bound
    /\ \A t \in {wtable, rtable} \ {NoTable} : \A m \in 1..32 :
         t.iterations[m] * byte_value_count(t.decoders[m + 1]) <= bound
    /\ Len(decoded) = bound
    /\ rstatus # "panic_index"

\* a read_block call through a foreign header's slot decoded exactly
\* max_data_size() values
C4_Witness ==
    /\ foreign /\ LastRead
    /\ Marker(1) \in 1..32
    /\ rtable.iterations[Marker(1)]
         * byte_value_count(rtable.decoders[Marker(1) + 1]) = max_data_size
    /\ decoded[max_data_size] # 0

\* the maximum over all families and bits-per-value of the values whole
\* iterations cover
FullMaximum ==
    LET S == {CeilDiv(BLOCK_SIZE, byte_value_count(Coder(f, b)))
                * byte_value_count(Coder(f, b)) : f \in Formats, b \in 1..32}
    IN CHOOSE m \in S : \A x \in S : x <= m

\* C5: the closure of max_data_size() is entered at most once, the static
\* only ever holds 0 or the full maximum, every call returns the full
\* maximum (never 0, never a partial value), and once a call has returned
\* the scan has run exactly once.
C5_OneTimeInit ==
    /\ scans <= 1
    /\ MAX_DATA_SIZE \in {0, FullMaximum}
    /\ FullMaximum > 0
    /\ \A t \in Threads : \A k \in 1..Len(ret[t]) : ret[t][k] = FullMaximum
    /\ (\E t \in Threads : ret[t] # << >>) => (scans = 1 /\ START = "complete")

\* two threads have returned, one of them twice
C5_Witness ==
    \E t1, t2 \in Threads :
        t1 # t2 /\ Len(ret[t1]) >= 1 /\ Len(ret[t2]) >= 2

\* C6: a block whose B values all equal v is written as the marker byte 0
\* followed by the vint of v and nothing else, whatever v is (any 32-bit
\* word); 128 zeros take exactly the two bytes 0, 0; and read_block on such
\* a block fills decoded[0..B) with v.
C6_ConstantBlock ==
    /\ \A k \in 1..Len(written) :
         LET data == DataOf(written[k]) IN
         Constant(data) =>
            /\ BlockBytes(k) = <<0>> \o write_vint(data[1])
            /\ data[1] = 0 => BlockBytes(k) = <<0, 0>>
    /\ (LastRead /\ ~ foreign /\ Constant(DataOf(written[Len(ops)]))) =>
         \A i \in 1..BLOCK_SIZE : decoded[i] = DataOf(written[Len(ops)])[1]

\* a constant block of a word with all 32 bits set was written in six bytes
\* and read back
C6_Witness ==
    /\ LastRead /\ ~ foreign
    /\ DataOf(written[Len(ops)])[1] = -1
    /\ Constant(DataOf(written[Len(ops)]))
    /\ Len(BlockBytes(Len(ops))) = 6
    /\ decoded[BLOCK_SIZE] = -1

\* v fits in k bits, for v >= 0
Fits(v, k) == k >= 31 \/ v < P2(k)

MinimalBits(data) ==
    Min({k \in 1..32 : \A i \in 1..BLOCK_SIZE : Fits(data[i], k)})

MaxOf(data) ==
    CHOOSE m \in {data[i] : i \in 1..BLOCK_SIZE} :
        \A i \in 1..BLOCK_SIZE : data[i] <= m

\* C7: for every non-constant block of non-negative values the marker byte
\* is the smallest k in [1,32] such that every value fits in k bits, which
\* is the bit length of the block's maximum (8 when the maximum is 200).
C7_Minimality ==
    \A k \in 1..Len(written) :
        LET data == DataOf(written[k]) IN
        (~ Constant(data) /\ NonNegative(written[k])) =>
            /\ Marker(k) \in 1..32
            /\ Marker(k) = MinimalBits(data)
            /\ Marker(k) = BitLength(MaxOf(data))
            /\ MaxOf(data) = 200 => Marker(k) = 8

\* a block whose OR (7) differs from its maximum (5) was written with 3 bits,
\* after a block with maximum 200 or alone
C7_Witness ==
    \E k \in 1..Len(written) :
        /\ MaxOf(DataOf(written[k])) = 5
        /\ Marker(k) = 3

\* some code of the header carries a family id other than 0 and 1
HasUnknownFamily ==
    /\ Len(file) >= HeaderLen
    /\ read_vint(file, 0).pos = 1
    /\ \E k \in 1..32 : CodeFormatId(file[1 + k]) \notin {0, 1}

\* C8 as stated: with_input on a header holding a code with an unknown
\* family id fails with UnknownFormat, returned as an Err, and builds no
\* table.
C8_Original ==
    (HasUnknownFamily /\ rstatus # "none") =>
        (rstatus = "UnknownFormat" /\ rtable = NoTable)

\* the version tag at the start of the file
VersionTag == read_vint(file, 0)

\* C9: with_input on a header whose version tag is outside
\* VERSION_START..VERSION_CURRENT fails with UnsupportedVersion, has read
\* nothing but the version tag, and returns no table.
C9_UnsupportedVersion ==
    (rstatus # "none" /\ VersionTag.ok
       /\ (VersionTag.value < VERSION_START \/ VersionTag.value > VERSION_CURRENT)) =>
        /\ rstatus = "UnsupportedVersion"
        /\ rtable = NoTable
        /\ inPos = VersionTag.pos
        /\ ops = << >>

\* with_input rejected a header whose version tag is -1, a five-byte vint
C9_Witness ==
    /\ rstatus = "UnsupportedVersion"
    /\ VersionTag.value = -1
    /\ inPos = 5

\* the coder the header's code for slot k resolves to
HeaderCoder(k) ==
    Coder(IF file[1 + k] \div 32 = 0 THEN "Packed" ELSE "PackedSingleBlock",
          (file[1 + k] % 32) + 1)

\* C10: in every table built, slot bpv of decoders (and of encoders on the
\* write path) holds the coder resolved for bpv, iterations[bpv] times the
\* decoder's values per iteration is at least B, on the write path
\* iterations[bpv] times the encoder's bytes per iteration is at least
\* encoded_size[bpv], and the assertions of write_block on these two
\* products never fire.
C10_TableInvariant ==
    /\ wtable # NoTable =>
         \A bpv \in 1..32 :
            /\ wtable.decoders[bpv + 1] = fastest(BLOCK_SIZE, bpv, ratio4)
            /\ wtable.encoders[bpv + 1] = fastest(BLOCK_SIZE, bpv, ratio4)
            /\ wtable.iterations[bpv] * byte_value_count(wtable.decoders[bpv + 1])
                 >= BLOCK_SIZE
            /\ wtable.iterations[bpv] * byte_block_count(wtable.encoders[bpv + 1])
                 >= wtable.encoded_sizes[bpv]
    /\ (rtable # NoTable /\ ~ foreign) =>
         \A bpv \in 1..32 :
            /\ rtable.decoders[bpv + 1] = HeaderCoder(bpv)
            /\ rtable.iterations[bpv] * byte_value_count(rtable.decoders[bpv + 1])
                 >= BLOCK_SIZE
    /\ wstatus \notin {"panic_assert_274", "panic_debug_assert_276"}

\* a non-constant block went through write_block's assertions into a slot
\* whose iterations cover more than B values
C10_Witness ==
    /\ wstatus = "ok" /\ written # << >>
    /\ Marker(Len(written)) # 0
    /\ wtable.iterations[Marker(Len(written))]
         * byte_value_count(wtable.encoders[Marker(Len(written)) + 1]) > BLOCK_SIZE

=============================================================================
